---- MODULE Spec2Model ----
(***************************************************************************)
(* A model of the MPC/TSS wallet service of main.go: the three request     *)
(* handlers (createWallet, listWallets, signData), the goroutines each     *)
(* session starts (one per party for Start, one forwarder per outbound     *)
(* channel, the dispatch loop, one per delivery) and the channels between  *)
(* them.  The protocol engine (tss-lib) is the environment: what Start,    *)
(* UpdateFromBytes and WireBytes return is chosen nondeterministically.    *)
(***************************************************************************)
EXTENDS Integers, Sequences, FiniteSets, TLC

\* ------------------------------------------------------------------ bounds
\* Requests the server receives in one run; request r is the r-th to arrive.
MaxRequests == 2
\* Sessions whose goroutines run at the same time.
MaxRunning == 1
\* Calls of a session's engines (Start, UpdateFromBytes) that return an error.
MaxFaults == 2

\* ------------------------------------------------------- program constants
parties == 3
threshold == 1

Req == 1..MaxRequests

\* The nil values: no response written, a nil *ECPoint, a nil *Wallet, a nil
\* destination list.
NoResponse == [code |-> 0, body |-> [none |-> TRUE]]
NoPoint == [X |-> 0, Y |-> 0]
NoWallet == [Address |-> <<>>]
NoDest == <<>>
NoBody == [json |-> FALSE, Data |-> <<>>, Wallet |-> <<>>]

\* ------------------------------------------------------------ pure helpers
\* Go strings are sequences of one-character strings, []byte sequences of 0..255.
HexChars == <<"0", "1", "2", "3", "4", "5", "6", "7", "8", "9",
              "a", "b", "c", "d", "e", "f">>
UpperHexChars == <<"A", "B", "C", "D", "E", "F">>

IsHexChar(c) ==
    \/ \E k \in 1..Len(HexChars) : HexChars[k] = c
    \/ \E k \in 1..Len(UpperHexChars) : UpperHexChars[k] = c

\* encoding/hex fromHexChar
HexVal(c) ==
    IF \E k \in 1..Len(HexChars) : HexChars[k] = c
    THEN (CHOOSE k \in 1..Len(HexChars) : HexChars[k] = c) - 1
    ELSE (CHOOSE k \in 1..Len(UpperHexChars) : UpperHexChars[k] = c) + 9

\* strings.TrimPrefix
TrimPrefix(s, prefix) ==
    IF Len(s) >= Len(prefix) /\ SubSeq(s, 1, Len(prefix)) = prefix
    THEN SubSeq(s, Len(prefix) + 1, Len(s))
    ELSE s

\* hex.DecodeString: an error on an odd length or on a character that is no
\* hex digit, the bytes otherwise.
DecodeString(s) ==
    IF Len(s) % 2 = 0 /\ \A k \in 1..Len(s) : IsHexChar(s[k])
    THEN [err |-> FALSE,
          bytes |-> [k \in 1..(Len(s) \div 2) |->
                        16 * HexVal(s[2 * k - 1]) + HexVal(s[2 * k])]]
    ELSE [err |-> TRUE, bytes |-> <<>>]

\* hex.EncodeToString
EncodeToString(bytes) ==
    [k \in 1..(2 * Len(bytes)) |->
        IF k % 2 = 1 THEN HexChars[(bytes[(k + 1) \div 2] \div 16) + 1]
                     ELSE HexChars[(bytes[k \div 2] % 16) + 1]]

\* new(big.Int).SetBytes: the bytes as a big-endian unsigned integer.
RECURSIVE SetBytes(_)
SetBytes(bytes) ==
    IF bytes = <<>> THEN 0
    ELSE 256 * SetBytes(SubSeq(bytes, 1, Len(bytes) - 1)) + bytes[Len(bytes)]

\* fmt.Sprintf("%d", n)
RECURSIVE Itoa(_)
Itoa(n) ==
    IF n < 10 THEN <<HexChars[n + 1]>>
    ELSE Itoa(n \div 10) \o <<HexChars[(n % 10) + 1]>>

\* crypto.Keccak256 on the 64 raw coordinate bytes, cut to the address bytes.
\* The model's coordinates are one byte each and the address is one byte; the
\* mixing is injective on the keys the model's sessions produce.
Keccak256(bytes) == <<(37 * bytes[1] + 11 * bytes[2] + 5) % 256>>

\* crypto.FromECDSAPub: the format marker 4, then X and Y.
FromECDSAPub(pub) == <<4, pub.X, pub.Y>>

\* crypto.PubkeyToAddress(pub).Hex()
PubkeyToAddress(pub) ==
    LET raw == FromECDSAPub(pub)
    IN  <<"0", "x">> \o EncodeToString(Keccak256(SubSeq(raw, 2, Len(raw))))

\* fmt.Sprintf("0x%x", crypto.FromECDSAPub(wallet.PubKey)[1:])
PubKeyHex(pub) ==
    LET raw == FromECDSAPub(pub)
    IN  <<"0", "x">> \o EncodeToString(SubSeq(raw, 2, Len(raw)))

\* ---------------------------------------------------- the protocol engine
\* What an engine gives at the end of session r: the group's public key, or
\* (variant 1) a different point.  The engines of a session may disagree: the
\* first party's may give either, the others give variant 0.
ECPoint(r, variant) == [X |-> r, Y |-> variant]
Variants(i) == IF i = 1 THEN {0, 1} ELSE {0}

\* The rounds of a session: in each round every party emits one message, a
\* broadcast (no destination) or a point-to-point message to the next party.
\* The model's keygen is one round of broadcasts, its signing two rounds of
\* point-to-point messages, so that a signing party emits two messages, one
\* after the other.
Rounds(k) == IF k = "keygen" THEN <<"bcast">> ELSE <<"p2p", "p2p">>

\* The messages of a round a party waits for before it goes on.
Expect(shape) == IF shape = "bcast" THEN parties - 1 ELSE 1

Succ(i) == (i % parties) + 1

\* The engine after the current round may have ended: it moves to the next
\* round for as long as the current one has all its messages, and records the
\* rounds it entered (out) and whether it finished (fin).
RECURSIVE Advance(_, _, _, _)
Advance(sc, round, rcvd, out) ==
    IF round = 0 \/ round > Len(sc) \/ rcvd[round] < Expect(sc[round])
    THEN [round |-> round, out |-> out, fin |-> FALSE]
    ELSE IF round = Len(sc)
    THEN [round |-> round + 1, out |-> out, fin |-> TRUE]
    ELSE Advance(sc, round + 1, rcvd, Append(out, round + 1))


\* What a signing party's engine gives when it ends: R and S as byte strings.
SignatureData(m, variant) == [R |-> <<16 + variant>>, S |-> <<m % 256>>]

\* A keygen party's save data: the group's public key and the owner's share id.
LocalPartySaveData(r, id, variant) == [ECDSAPub |-> ECPoint(r, variant), ShareID |-> id]

\* ------------------------------------------------------------------- state
VARIABLES
    wallets,          \* the Wallet Store: address |-> Wallet
    walletsMutex,     \* 0 when free, else the request that holds it
    pc,               \* where each request's handler is
    kind,             \* "keygen", "sign" or "list" once the request arrived
    resp,             \* the response written with c.JSON
    requestBody,      \* signData's local: the body the client sent
    existingWallets,  \* createWallet's local: len(wallets) read under the lock
    walletAddress,    \* signData's local: requestBody.Wallet
    data,             \* signData's local: the decoded bytes
    wallet,           \* signData's local: the *Wallet found in the store
    msgToSign,        \* signData's local
    partyIDs,         \* the session's sorted party ids (the Id strings)
    partyGo,          \* where each party's Start goroutine is
    engine,           \* each party's engine: its round and the messages stored
    outChs,           \* each party's outbound channel
    messages,         \* the shared inbound channel
    deliveries,       \* the delivery goroutines alive
    endChs,           \* keygen: each party's end channel
    resultCh,         \* keygen: the results channel
    endCh,            \* signing: the shared end channel
    loop,             \* where the dispatch loop is
    saves,            \* keygen dispatch loop's local
    pubKey,           \* keygen dispatch loop's local
    signatures,       \* signing dispatch loop's local
    faults            \* the engine calls of the session that returned an error

storeVars == <<wallets, walletsMutex>>
reqVars == <<pc, kind, resp, requestBody>>
localVars == <<existingWallets, walletAddress, data, wallet, msgToSign>>
chanVars == <<outChs, messages, endChs, resultCh, endCh>>
loopVars == <<loop, saves, pubKey, signatures>>
sessVars == <<partyIDs, partyGo, engine, deliveries, faults>>
vars == <<storeVars, reqVars, localVars, chanVars, loopVars, sessVars>>

PartyIx(r) == 1..Len(partyIDs[r])

\* A session's goroutines exist from the handler's spawn to its return.
Running(r) == loop[r] # "none"

Init ==
    /\ wallets = <<>>
    /\ walletsMutex = 0
    /\ pc = [r \in Req |-> "idle"]
    /\ kind = [r \in Req |-> "none"]
    /\ resp = [r \in Req |-> NoResponse]
    /\ requestBody = [r \in Req |-> NoBody]
    /\ existingWallets = [r \in Req |-> 0]
    /\ walletAddress = [r \in Req |-> <<>>]
    /\ data = [r \in Req |-> <<>>]
    /\ wallet = [r \in Req |-> NoWallet]
    /\ msgToSign = [r \in Req |-> 0]
    /\ partyIDs = [r \in Req |-> <<>>]
    /\ partyGo = [r \in Req |-> <<>>]
    /\ engine = [r \in Req |-> <<>>]
    /\ outChs = [r \in Req |-> <<>>]
    /\ messages = [r \in Req |-> <<>>]
    /\ deliveries = [r \in Req |-> {}]
    /\ endChs = [r \in Req |-> <<>>]
    /\ resultCh = [r \in Req |-> <<>>]
    /\ endCh = [r \in Req |-> <<>>]
    /\ loop = [r \in Req |-> "none"]
    /\ saves = [r \in Req |-> <<>>]
    /\ pubKey = [r \in Req |-> NoPoint]
    /\ signatures = [r \in Req |-> <<>>]
    /\ faults = [r \in Req |-> 0]

\* Requests arrive in the order of their numbers.
Arrives(r) == pc[r] = "idle" /\ \A q \in Req : q < r => pc[q] # "idle"

\* c.JSON(code, body)
JSON(r, code, body) == resp' = [resp EXCEPT ![r] = [code |-> code, body |-> body]]

\* The channels, goroutines and loop locals of a session as the handler makes
\* them: n parties, each with an engine not yet started.
Spawn(r, ids) ==
    /\ partyIDs' = [partyIDs EXCEPT ![r] = ids]
    /\ partyGo' = [partyGo EXCEPT ![r] = [i \in 1..Len(ids) |-> "start"]]
    /\ engine' = [engine EXCEPT ![r] =
          [i \in 1..Len(ids) |->
              [round |-> 0, rcvd |-> [k \in 1..Len(Rounds(kind[r])) |-> 0]]]]
    /\ outChs' = [outChs EXCEPT ![r] = [i \in 1..Len(ids) |-> <<>>]]
    /\ endChs' = [endChs EXCEPT ![r] = [i \in 1..Len(ids) |-> <<>>]]
    /\ loop' = [loop EXCEPT ![r] = "select"]
    /\ UNCHANGED <<messages, deliveries, resultCh, endCh, saves, pubKey, signatures,
                   faults>>

\* The handler returns: the session's channels and goroutines are out of the
\* program's reach (a goroutine still blocked on one stays blocked).
Discard(r) ==
    /\ partyIDs' = [partyIDs EXCEPT ![r] = <<>>]
    /\ partyGo' = [partyGo EXCEPT ![r] = <<>>]
    /\ engine' = [engine EXCEPT ![r] = <<>>]
    /\ outChs' = [outChs EXCEPT ![r] = <<>>]
    /\ messages' = [messages EXCEPT ![r] = <<>>]
    /\ deliveries' = [deliveries EXCEPT ![r] = {}]
    /\ endChs' = [endChs EXCEPT ![r] = <<>>]
    /\ resultCh' = [resultCh EXCEPT ![r] = <<>>]
    /\ endCh' = [endCh EXCEPT ![r] = <<>>]
    /\ loop' = [loop EXCEPT ![r] = "none"]
    /\ saves' = [saves EXCEPT ![r] = <<>>]
    /\ pubKey' = [pubKey EXCEPT ![r] = NoPoint]
    /\ signatures' = [signatures EXCEPT ![r] = <<>>]
    /\ faults' = [faults EXCEPT ![r] = 0]

\* ------------------------------------------------------------ createWallet
\* walletsMutex.Lock()
CreateWalletLock(r) ==
    /\ Arrives(r)
    /\ walletsMutex = 0
    /\ walletsMutex' = r
    /\ kind' = [kind EXCEPT ![r] = "keygen"]
    /\ pc' = [pc EXCEPT ![r] = "count"]
    /\ UNCHANGED <<wallets, resp, requestBody, localVars, chanVars, loopVars, sessVars>>

\* The handler goes on without walletsMutex.Unlock().
CreateWalletCountKeepsLock(r) ==
    /\ pc[r] = "count"
    /\ existingWallets' = [existingWallets EXCEPT ![r] = Cardinality(DOMAIN wallets)]
    /\ pc' = [pc EXCEPT ![r] = "setup"]
    /\ UNCHANGED <<storeVars, kind, resp, requestBody, walletAddress, data, wallet,
                   msgToSign, chanVars, loopVars, sessVars>>

\* existingWallets := len(wallets); walletsMutex.Unlock()
CreateWalletCount(r) ==
    /\ pc[r] = "count"
    /\ existingWallets' = [existingWallets EXCEPT ![r] = Cardinality(DOMAIN wallets)]
    /\ walletsMutex' = 0
    /\ pc' = [pc EXCEPT ![r] = "setup"]
    /\ UNCHANGED <<wallets, kind, resp, requestBody, walletAddress, data, wallet,
                   msgToSign, chanVars, loopVars, sessVars>>

\* The party ids (sorted by key, which grows with i), the channels, the parties,
\* a goroutine per party, a forwarder per outbound channel, the dispatch loop;
\* then wg.Wait().
CreateWalletSpawn(r) ==
    /\ pc[r] = "setup"
    /\ kind[r] = "keygen"
    /\ Cardinality({q \in Req : Running(q)}) < MaxRunning
    /\ Spawn(r, [i \in 1..parties |-> Itoa(existingWallets[r] + i - 1)])
    /\ existingWallets' = [existingWallets EXCEPT ![r] = 0]
    /\ pc' = [pc EXCEPT ![r] = "wait"]
    /\ UNCHANGED <<storeVars, kind, resp, requestBody, walletAddress, data, wallet,
                   msgToSign>>

\* ------------------------------------------------- the session's goroutines
\* The message party i emits on entering round rd.
Message(r, i, rd) ==
    [from |-> partyIDs[r][i],
     round |-> rd,
     to |-> IF Rounds(kind[r])[rd] = "bcast" THEN NoDest
            ELSE <<partyIDs[r][Succ(i)]>>]

\* What the engine of party i puts on its channels inside one call: the
\* messages of the rounds it entered on outCh and, if it finished, its output
\* on its end channel.  A send on a full channel blocks the call.
EngineOut(r, i, adv) ==
    /\ Len(outChs[r][i]) + Len(adv.out) <= Len(partyIDs[r]) * Len(partyIDs[r])
    /\ outChs' = [outChs EXCEPT ![r][i] =
                     @ \o [k \in 1..Len(adv.out) |-> Message(r, i, adv.out[k])]]
    /\ IF ~adv.fin
       THEN UNCHANGED <<endChs, endCh>>
       ELSE \E v \in Variants(i) :
              IF kind[r] = "keygen"
              THEN /\ Len(endChs[r][i]) < 1
                   /\ endChs' = [endChs EXCEPT ![r][i] =
                         Append(@, LocalPartySaveData(r, partyIDs[r][i], v))]
                   /\ UNCHANGED endCh
              ELSE /\ Len(endCh[r]) < Len(partyIDs[r])
                   /\ endCh' = [endCh EXCEPT ![r] =
                         Append(@, SignatureData(msgToSign[r], v))]
                   /\ UNCHANGED endChs

\* p.Start() returns an error: the goroutine goes on to errCh <- err.
StartFails(r, i) ==
    /\ Running(r)
    /\ i \in PartyIx(r)
    /\ partyGo[r][i] = "start"
    /\ faults[r] < MaxFaults
    /\ faults' = [faults EXCEPT ![r] = @ + 1]
    /\ partyGo' = [partyGo EXCEPT ![r][i] = "errCh"]
    /\ UNCHANGED <<storeVars, reqVars, localVars, chanVars, loopVars,
                   partyIDs, engine, deliveries>>

\* p.Start() returns nil: the engine entered round 1 and emitted its message.
\* The keygen goroutine goes on to save := <-endCh, the signing one ends.
StartOk(r, i) ==
    /\ Running(r)
    /\ i \in PartyIx(r)
    /\ partyGo[r][i] = "start"
    /\ LET adv == Advance(Rounds(kind[r]), 1, engine[r][i].rcvd, <<1>>)
       IN  /\ EngineOut(r, i, adv)
           /\ engine' = [engine EXCEPT ![r][i].round = adv.round]
    /\ partyGo' = [partyGo EXCEPT ![r][i] =
                      IF kind[r] = "keygen" THEN "endCh" ELSE "done"]
    /\ UNCHANGED <<storeVars, reqVars, localVars, messages, resultCh, loopVars,
                   partyIDs, deliveries, faults>>

\* save := <-endCh; resultCh <- keygenResult{PartyID: partyID, Save: save}
\* (resultCh holds one result per party, so the send never blocks)
PartyResult(r, i) ==
    /\ Running(r)
    /\ i \in PartyIx(r)
    /\ partyGo[r][i] = "endCh"
    /\ endChs[r][i] # <<>>
    /\ Len(resultCh[r]) < parties
    /\ resultCh' = [resultCh EXCEPT ![r] =
          Append(@, [PartyID |-> partyIDs[r][i], Save |-> Head(endChs[r][i])])]
    /\ endChs' = [endChs EXCEPT ![r][i] = Tail(@)]
    /\ partyGo' = [partyGo EXCEPT ![r][i] = "done"]
    /\ UNCHANGED <<storeVars, reqVars, localVars, outChs, messages, endCh,
                   loopVars, partyIDs, engine, deliveries, faults>>

\* The forwarder puts the message at the front of the shared stream.
ForwardPrepends(r, i) ==
    /\ Running(r)
    /\ i \in PartyIx(r)
    /\ outChs[r][i] # <<>>
    /\ Len(messages[r]) < Len(partyIDs[r]) * Len(partyIDs[r])
    /\ messages' = [messages EXCEPT ![r] = <<Head(outChs[r][i])>> \o @]
    /\ outChs' = [outChs EXCEPT ![r][i] = Tail(@)]
    /\ UNCHANGED <<storeVars, reqVars, localVars, endChs, resultCh, endCh,
                   loopVars, sessVars>>

\* for msg := range ch { messages <- msg }
Forward(r, i) ==
    /\ Running(r)
    /\ i \in PartyIx(r)
    /\ outChs[r][i] # <<>>
    /\ Len(messages[r]) < Len(partyIDs[r]) * Len(partyIDs[r])
    /\ messages' = [messages EXCEPT ![r] = Append(@, Head(outChs[r][i]))]
    /\ outChs' = [outChs EXCEPT ![r][i] = Tail(@)]
    /\ UNCHANGED <<storeVars, reqVars, localVars, endChs, resultCh, endCh,
                   loopVars, sessVars>>

\* The delivery goroutine answers 500 itself when UpdateFromBytes fails.
UpdateFailsResponds(r, d) ==
    /\ Running(r)
    /\ d \in deliveries[r]
    /\ d.at = "update"
    /\ faults[r] < MaxFaults
    /\ faults' = [faults EXCEPT ![r] = @ + 1]
    /\ deliveries' = [deliveries EXCEPT ![r] = @ \ {d}]
    /\ JSON(r, 500, [error |-> "update"])
    /\ UNCHANGED <<storeVars, pc, kind, requestBody, localVars, chanVars, loopVars,
                   partyIDs, partyGo, engine>>

\* p.UpdateFromBytes(wireBytes, msg.GetFrom(), msg.IsBroadcast()) returns an
\* error: the delivery goroutine goes on to errCh <- err.
UpdateFails(r, d) ==
    /\ Running(r)
    /\ d \in deliveries[r]
    /\ d.at = "update"
    /\ faults[r] < MaxFaults
    /\ faults' = [faults EXCEPT ![r] = @ + 1]
    /\ deliveries' = [deliveries EXCEPT ![r] = (@ \ {d}) \cup {[d EXCEPT !.at = "errCh"]}]
    /\ UNCHANGED <<storeVars, reqVars, localVars, chanVars, loopVars,
                   partyIDs, partyGo, engine>>

\* p.UpdateFromBytes returns nil: the engine stored the message and went on as
\* far as the messages it holds allow; the delivery goroutine ends.
UpdateOk(r, d) ==
    /\ Running(r)
    /\ d \in deliveries[r]
    /\ d.at = "update"
    /\ LET e == engine[r][d.p]
           rcvd == [e.rcvd EXCEPT ![d.round] = @ + 1]
           adv == Advance(Rounds(kind[r]), e.round, rcvd, <<>>)
       IN  /\ EngineOut(r, d.p, adv)
           /\ engine' = [engine EXCEPT ![r][d.p] = [round |-> adv.round, rcvd |-> rcvd]]
    /\ deliveries' = [deliveries EXCEPT ![r] = @ \ {d}]
    /\ UNCHANGED <<storeVars, reqVars, localVars, messages, resultCh, loopVars,
                   partyIDs, partyGo, faults>>

\* A broadcast is delivered to its sender too.
TargetsWithSender(r, msg) ==
    IF msg.to = NoDest
    THEN PartyIx(r)
    ELSE {p \in PartyIx(r) : \E k \in 1..Len(msg.to) : partyIDs[r][p] = msg.to[k]}

\* Point-to-point messages reach nobody.
TargetsBroadcastOnly(r, msg) ==
    IF msg.to = NoDest
    THEN {p \in PartyIx(r) : partyIDs[r][p] # msg.from}
    ELSE {}

\* ------------------------------------------------------- the dispatch loop
\* The parties a message is delivered to: every party but the sender for a
\* broadcast (dest == nil), the first party with the id of each destination
\* otherwise.
Targets(r, msg) ==
    IF msg.to = NoDest
    THEN {p \in PartyIx(r) : partyIDs[r][p] # msg.from}
    ELSE {p \in PartyIx(r) : \E k \in 1..Len(msg.to) :
              /\ partyIDs[r][p] = msg.to[k]
              /\ \A q \in PartyIx(r) : partyIDs[r][q] = msg.to[k] => q >= p}

\* case err := <-errCh, from a party's goroutine: 500 and return.
DispatchStartErr(r, i) ==
    /\ loop[r] = "select"
    /\ i \in PartyIx(r)
    /\ partyGo[r][i] = "errCh"
    /\ partyGo' = [partyGo EXCEPT ![r][i] = "done"]
    /\ JSON(r, 500, [error |-> "start"])
    /\ loop' = [loop EXCEPT ![r] = "returned"]
    /\ UNCHANGED <<storeVars, pc, kind, requestBody, localVars, chanVars, saves,
                   pubKey, signatures, partyIDs, engine, deliveries, faults>>

\* The loop answers 500 and goes on selecting.
DispatchUpdateErrContinues(r, d) ==
    /\ loop[r] = "select"
    /\ d \in deliveries[r]
    /\ d.at = "errCh"
    /\ deliveries' = [deliveries EXCEPT ![r] = @ \ {d}]
    /\ JSON(r, 500, [error |-> "update"])
    /\ UNCHANGED <<storeVars, pc, kind, requestBody, localVars, chanVars, loopVars,
                   partyIDs, partyGo, engine, faults>>

\* case err := <-errCh, from a delivery goroutine: 500 and return.
DispatchUpdateErr(r, d) ==
    /\ loop[r] = "select"
    /\ d \in deliveries[r]
    /\ d.at = "errCh"
    /\ deliveries' = [deliveries EXCEPT ![r] = @ \ {d}]
    /\ JSON(r, 500, [error |-> "update"])
    /\ loop' = [loop EXCEPT ![r] = "returned"]
    /\ UNCHANGED <<storeVars, pc, kind, requestBody, localVars, chanVars, saves,
                   pubKey, signatures, partyIDs, partyGo, engine, faults>>

\* case msg := <-messages, msg.WireBytes() fails: the loop sends the error on
\* errCh, the unbuffered channel it alone receives from.
DispatchWireBytesFails(r) ==
    /\ loop[r] = "select"
    /\ messages[r] # <<>>
    /\ messages' = [messages EXCEPT ![r] = Tail(@)]
    /\ loop' = [loop EXCEPT ![r] = "errCh"]
    /\ UNCHANGED <<storeVars, reqVars, localVars, outChs, endChs, resultCh, endCh,
                   saves, pubKey, signatures, sessVars>>

\* case msg := <-messages: one delivery goroutine per target.
DispatchMessage(r) ==
    /\ loop[r] = "select"
    /\ messages[r] # <<>>
    /\ LET msg == Head(messages[r])
       IN  deliveries' = [deliveries EXCEPT ![r] = @ \cup
              {[p |-> p, from |-> msg.from, round |-> msg.round, at |-> "update"] :
                  p \in Targets(r, msg)}]
    /\ messages' = [messages EXCEPT ![r] = Tail(@)]
    /\ UNCHANGED <<storeVars, reqVars, localVars, outChs, endChs, resultCh, endCh,
                   loopVars, partyIDs, partyGo, engine, faults>>

\* The wallet is stored one save short.
AllSavedOneShort(saved) == Cardinality(DOMAIN saved) >= parties - 1

\* if len(saveData) == parties
AllSaved(saved) == Cardinality(DOMAIN saved) = parties

\* case result := <-resultCh: the save is recorded under the party's id, the
\* first result's public key is kept, and with a save of every party the loop
\* goes on to store the wallet.
DispatchResult(r) ==
    /\ loop[r] = "select"
    /\ resultCh[r] # <<>>
    /\ LET result == Head(resultCh[r])
           saved == (result.PartyID :> result.Save) @@ saves[r]
       IN  /\ saves' = [saves EXCEPT ![r] = saved]
           /\ pubKey' = [pubKey EXCEPT ![r] =
                 IF @ = NoPoint THEN result.Save.ECDSAPub ELSE @]
           /\ loop' = [loop EXCEPT ![r] =
                 IF AllSaved(saved) THEN "lock" ELSE "select"]
    /\ resultCh' = [resultCh EXCEPT ![r] = Tail(@)]
    /\ UNCHANGED <<storeVars, reqVars, localVars, outChs, messages, endChs, endCh,
                   signatures, sessVars>>

\* walletsMutex.Lock() before the put
DispatchLock(r) ==
    /\ loop[r] = "lock"
    /\ walletsMutex = 0
    /\ walletsMutex' = r
    /\ loop' = [loop EXCEPT ![r] = "put"]
    /\ UNCHANGED <<wallets, reqVars, localVars, chanVars, saves, pubKey,
                   signatures, sessVars>>

\* The wallet keeps the public key of the last party's save, its address is
\* the one of the first result's key.
NewWalletKeyOfLast(r) ==
    LET pubKeyECDSA == [X |-> pubKey[r].X, Y |-> pubKey[r].Y]
        last == saves[r][partyIDs[r][Len(partyIDs[r])]].ECDSAPub
    IN  [Address |-> PubkeyToAddress(pubKeyECDSA),
         PubKey |-> [X |-> last.X, Y |-> last.Y],
         SaveData |-> saves[r],
         PartyIDs |-> partyIDs[r],
         Threshold |-> threshold]

\* The wallet is stored without the save of its first party.
NewWalletDropsSave(r) ==
    LET pubKeyECDSA == [X |-> pubKey[r].X, Y |-> pubKey[r].Y]
    IN  [Address |-> PubkeyToAddress(pubKeyECDSA),
         PubKey |-> pubKeyECDSA,
         SaveData |-> [id \in DOMAIN saves[r] \ {partyIDs[r][1]} |-> saves[r][id]],
         PartyIDs |-> partyIDs[r],
         Threshold |-> threshold]

\* The wallet built from the loop's locals.
NewWallet(r) ==
    LET pubKeyECDSA == [X |-> pubKey[r].X, Y |-> pubKey[r].Y]
    IN  [Address |-> PubkeyToAddress(pubKeyECDSA),
         PubKey |-> pubKeyECDSA,
         SaveData |-> saves[r],
         PartyIDs |-> partyIDs[r],
         Threshold |-> threshold]

\* wallets[address] = wallet; walletsMutex.Unlock(); 200 with the address; return
DispatchPut(r) ==
    /\ loop[r] = "put"
    /\ wallets' = (NewWallet(r).Address :> NewWallet(r)) @@ wallets
    /\ walletsMutex' = 0
    /\ JSON(r, 200, [address |-> NewWallet(r).Address])
    /\ loop' = [loop EXCEPT ![r] = "returned"]
    /\ UNCHANGED <<pc, kind, requestBody, localVars, chanVars, saves, pubKey,
                   signatures, sessVars>>

\* wg.Wait() returns once the loop has returned, and so does the handler.
HandlerReturn(r) ==
    /\ pc[r] = "wait"
    /\ loop[r] = "returned"
    /\ pc' = [pc EXCEPT ![r] = "done"]
    /\ Discard(r)
    /\ msgToSign' = [msgToSign EXCEPT ![r] = 0]
    /\ wallet' = [wallet EXCEPT ![r] = NoWallet]
    /\ UNCHANGED <<storeVars, kind, resp, requestBody, existingWallets,
                   walletAddress, data>>

\* ---------------------------------------------------------------- signData
\* The request bodies the model's clients send: a body that is no JSON, or a
\* data and a wallet string.  A client names no wallet, an address no wallet
\* has, or an address of the store.
NonExistentWallet == <<"0", "x", "a", "d">>
DataInputs ==
    { <<>>,
      <<"0", "x">>,
      <<"0", "x", "7", "4", "6", "5", "7", "3", "7", "4">>,
      <<"7", "4", "6", "5", "7", "3", "7", "4">>,
      <<"0", "x", "7", "$", "4", "1", "6", "5", "7", "3", "7", "4">>,
      <<"0", "x", "7">> }
WalletInputs == {<<>>, NonExistentWallet} \cup DOMAIN wallets
Bodies ==
    {NoBody}
    \cup [json : {TRUE}, Data : DataInputs, Wallet : WalletInputs]

\* Decoded data of length zero is refused as invalid.
DecodeRefusesEmpty(body) ==
    IF ~body.json
    THEN [code |-> 400, error |-> "invalid request body", bytes |-> <<>>]
    ELSE IF body.Data = <<>> \/ body.Wallet = <<>>
    THEN [code |-> 400, error |-> "data and wallet are required", bytes |-> <<>>]
    ELSE LET dec == DecodeString(TrimPrefix(body.Data, <<"0", "x">>))
         IN  IF dec.err \/ dec.bytes = <<>>
             THEN [code |-> 400, error |-> "invalid data", bytes |-> <<>>]
             ELSE [code |-> 0, error |-> "", bytes |-> dec.bytes]

\* The error of hex.DecodeString is ignored.
DecodeIgnoresError(body) ==
    IF ~body.json
    THEN [code |-> 400, error |-> "invalid request body", bytes |-> <<>>]
    ELSE IF body.Data = <<>> \/ body.Wallet = <<>>
    THEN [code |-> 400, error |-> "data and wallet are required", bytes |-> <<>>]
    ELSE [code |-> 0, error |-> "",
          bytes |-> DecodeString(TrimPrefix(body.Data, <<"0", "x">>)).bytes]

\* c.BindJSON, the required-field check and the hex decoding of the data: the
\* 400 response of the first that fails, or the decoded bytes.
Decode(body) ==
    IF ~body.json
    THEN [code |-> 400, error |-> "invalid request body", bytes |-> <<>>]
    ELSE IF body.Data = <<>> \/ body.Wallet = <<>>
    THEN [code |-> 400, error |-> "data and wallet are required", bytes |-> <<>>]
    ELSE LET dec == DecodeString(TrimPrefix(body.Data, <<"0", "x">>))
         IN  IF dec.err
             THEN [code |-> 400, error |-> "invalid data", bytes |-> <<>>]
             ELSE [code |-> 0, error |-> "", bytes |-> dec.bytes]

\* The handler up to the lookup: a 400 and return, or on to walletsMutex.Lock().
SignDataBind(r, body) ==
    /\ Arrives(r)
    /\ body \in Bodies
    /\ kind' = [kind EXCEPT ![r] = "sign"]
    /\ requestBody' = [requestBody EXCEPT ![r] = body]
    /\ LET dec == Decode(body)
       IN  IF dec.code # 0
           THEN /\ JSON(r, dec.code, [error |-> dec.error])
                /\ pc' = [pc EXCEPT ![r] = "done"]
                /\ UNCHANGED <<walletAddress, data>>
           ELSE /\ walletAddress' = [walletAddress EXCEPT ![r] = body.Wallet]
                /\ data' = [data EXCEPT ![r] = dec.bytes]
                /\ pc' = [pc EXCEPT ![r] = "lock"]
                /\ UNCHANGED resp
    /\ UNCHANGED <<storeVars, existingWallets, wallet, msgToSign, chanVars,
                   loopVars, sessVars>>

\* walletsMutex.Lock()
SignDataLock(r) ==
    /\ pc[r] = "lock"
    /\ walletsMutex = 0
    /\ walletsMutex' = r
    /\ pc' = [pc EXCEPT ![r] = "get"]
    /\ UNCHANGED <<wallets, kind, resp, requestBody, localVars, chanVars, loopVars,
                   sessVars>>

\* The lookup takes the wallet out of the store.
SignDataGetDeletes(r) ==
    /\ pc[r] = "get"
    /\ walletsMutex' = 0
    /\ wallets' = [a \in DOMAIN wallets \ {walletAddress[r]} |-> wallets[a]]
    /\ IF walletAddress[r] \in DOMAIN wallets
       THEN /\ wallet' = [wallet EXCEPT ![r] = wallets[walletAddress[r]]]
            /\ pc' = [pc EXCEPT ![r] = "setup"]
            /\ UNCHANGED <<resp, data>>
       ELSE /\ JSON(r, 404, [error |-> "wallet not found"])
            /\ pc' = [pc EXCEPT ![r] = "done"]
            /\ data' = [data EXCEPT ![r] = <<>>]
            /\ UNCHANGED wallet
    /\ walletAddress' = [walletAddress EXCEPT ![r] = <<>>]
    /\ UNCHANGED <<kind, requestBody, existingWallets, msgToSign, chanVars,
                   loopVars, sessVars>>

\* The handler goes on without looking at exists.
SignDataGetNoCheck(r) ==
    /\ pc[r] = "get"
    /\ walletsMutex' = 0
    /\ wallet' = [wallet EXCEPT ![r] =
          IF walletAddress[r] \in DOMAIN wallets
          THEN wallets[walletAddress[r]]
          ELSE [Address |-> <<>>, PubKey |-> NoPoint, SaveData |-> <<>>,
                PartyIDs |-> <<>>, Threshold |-> 0]]
    /\ pc' = [pc EXCEPT ![r] = "setup"]
    /\ walletAddress' = [walletAddress EXCEPT ![r] = <<>>]
    /\ UNCHANGED <<wallets, kind, resp, requestBody, existingWallets, data,
                   msgToSign, chanVars, loopVars, sessVars>>

\* wallet, exists := wallets[walletAddress]; walletsMutex.Unlock(); 404 and
\* return when there is none.
SignDataGet(r) ==
    /\ pc[r] = "get"
    /\ walletsMutex' = 0
    /\ IF walletAddress[r] \in DOMAIN wallets
       THEN /\ wallet' = [wallet EXCEPT ![r] = wallets[walletAddress[r]]]
            /\ pc' = [pc EXCEPT ![r] = "setup"]
            /\ UNCHANGED <<resp, data>>
       ELSE /\ JSON(r, 404, [error |-> "wallet not found"])
            /\ pc' = [pc EXCEPT ![r] = "done"]
            /\ data' = [data EXCEPT ![r] = <<>>]
            /\ UNCHANGED wallet
    /\ walletAddress' = [walletAddress EXCEPT ![r] = <<>>]
    /\ UNCHANGED <<wallets, kind, requestBody, existingWallets, msgToSign, chanVars,
                   loopVars, sessVars>>

\* msgToSign, the channels and, party by party, the save data and the party's
\* goroutine: a party without save data ends the handler with a 500.  Then the
\* forwarders, the dispatch loop and wg.Wait().
SignDataSpawn(r) ==
    /\ pc[r] = "setup"
    /\ kind[r] = "sign"
    /\ Cardinality({q \in Req : Running(q)}) < MaxRunning
    /\ data' = [data EXCEPT ![r] = <<>>]
    /\ IF \E i \in 1..Len(wallet[r].PartyIDs) :
             wallet[r].PartyIDs[i] \notin DOMAIN wallet[r].SaveData
       THEN /\ JSON(r, 500, [error |-> "SaveData for party not found"])
            /\ pc' = [pc EXCEPT ![r] = "done"]
            /\ wallet' = [wallet EXCEPT ![r] = NoWallet]
            /\ UNCHANGED <<msgToSign, chanVars, loopVars, sessVars>>
       ELSE /\ msgToSign' = [msgToSign EXCEPT ![r] = SetBytes(data[r])]
            /\ Spawn(r, wallet[r].PartyIDs)
            /\ pc' = [pc EXCEPT ![r] = "wait"]
            /\ UNCHANGED <<resp, wallet>>
    /\ UNCHANGED <<storeVars, kind, requestBody, existingWallets, walletAddress>>

\* S is put before R.
SignatureSThenR(sigData) == sigData.S \o sigData.R

\* r, s := sigData.R, sigData.S; signature := append(r, s...)
Signature(sigData) == sigData.R \o sigData.S

\* The signature is returned one completion short.
AllSignedOneShort(sigs, numParties) == Len(sigs) >= numParties - 1

\* if len(signatures) == numParties
AllSigned(sigs, numParties) == Len(sigs) = numParties

\* case sigData := <-endCh: with numParties signatures, 200 with the hex of R
\* then S of this one, and return.
DispatchSignature(r) ==
    /\ loop[r] = "select"
    /\ endCh[r] # <<>>
    /\ LET sigData == Head(endCh[r])
           sigs == Append(signatures[r], sigData)
       IN  /\ signatures' = [signatures EXCEPT ![r] = sigs]
           /\ IF AllSigned(sigs, Len(partyIDs[r]))
              THEN /\ JSON(r, 200, [signature |-> EncodeToString(Signature(sigData))])
                   /\ loop' = [loop EXCEPT ![r] = "returned"]
              ELSE UNCHANGED <<resp, loop>>
    /\ endCh' = [endCh EXCEPT ![r] = Tail(@)]
    /\ UNCHANGED <<storeVars, pc, kind, requestBody, localVars, outChs, messages,
                   endChs, resultCh, saves, pubKey, sessVars>>

\* ------------------------------------------------------------- listWallets
\* walletsMutex.Lock()
ListWalletsLock(r) ==
    /\ Arrives(r)
    /\ walletsMutex = 0
    /\ walletsMutex' = r
    /\ kind' = [kind EXCEPT ![r] = "list"]
    /\ pc' = [pc EXCEPT ![r] = "list"]
    /\ UNCHANGED <<wallets, resp, requestBody, localVars, chanVars, loopVars, sessVars>>

\* One entry per wallet of the map, the address the map's key; 200; the
\* deferred Unlock.
ListWallets(r) ==
    /\ pc[r] = "list"
    /\ JSON(r, 200, [wallets |->
          {[Address |-> addr, PubKey |-> PubKeyHex(wallets[addr].PubKey)] :
              addr \in DOMAIN wallets}])
    /\ walletsMutex' = 0
    /\ pc' = [pc EXCEPT ![r] = "done"]
    /\ UNCHANGED <<wallets, kind, requestBody, localVars, chanVars, loopVars,
                   sessVars>>

\* The server sends the response the handler wrote and is done with the request.
ServeDone(r) ==
    /\ pc[r] = "done"
    /\ pc' = [pc EXCEPT ![r] = "closed"]
    /\ kind' = [kind EXCEPT ![r] = "none"]
    /\ resp' = [resp EXCEPT ![r] = NoResponse]
    /\ requestBody' = [requestBody EXCEPT ![r] = NoBody]
    /\ UNCHANGED <<storeVars, localVars, chanVars, loopVars, sessVars>>

Next ==
    \/ \E r \in Req :
          \/ CreateWalletLock(r)
          \/ CreateWalletCount(r)
          \/ CreateWalletSpawn(r)
          \/ DispatchWireBytesFails(r)
          \/ DispatchMessage(r)
          \/ DispatchResult(r)
          \/ DispatchLock(r)
          \/ DispatchPut(r)
          \/ HandlerReturn(r)
          \/ SignDataLock(r)
          \/ SignDataGet(r)
          \/ SignDataSpawn(r)
          \/ DispatchSignature(r)
          \/ ListWalletsLock(r)
          \/ ListWallets(r)
          \/ ServeDone(r)
    \/ \E r \in Req : \E body \in Bodies : SignDataBind(r, body)
    \/ \E r \in Req, i \in 1..parties :
          \/ StartFails(r, i)
          \/ StartOk(r, i)
          \/ PartyResult(r, i)
          \/ Forward(r, i)
          \/ DispatchStartErr(r, i)
    \/ \E r \in Req : \E d \in deliveries[r] :
          \/ UpdateFails(r, d)
          \/ UpdateOk(r, d)
          \/ DispatchUpdateErr(r, d)

Spec == Init /\ [][Next]_vars

\* The steps of request r's handler goroutine, of its dispatch loop, of the
\* goroutine of its party i, of party i's forwarder and of its delivery
\* goroutines: the Go scheduler runs every goroutine that can run.
HandlerSteps(r) ==
    \/ CreateWalletLock(r) \/ CreateWalletCount(r) \/ CreateWalletSpawn(r)
    \/ SignDataLock(r) \/ SignDataGet(r) \/ SignDataSpawn(r)
    \/ ListWallets(r) \/ HandlerReturn(r)
LoopSteps(r) ==
    \/ DispatchMessage(r) \/ DispatchResult(r) \/ DispatchSignature(r)
    \/ DispatchLock(r) \/ DispatchPut(r)
PartySteps(r, i) == StartOk(r, i) \/ PartyResult(r, i)
DeliverySteps(r) == \E d \in deliveries[r] : UpdateOk(r, d)

\* A run in which Start, UpdateFromBytes and WireBytes never fail.
NextNoError ==
    \/ \E r \in Req : HandlerSteps(r) \/ LoopSteps(r) \/ DeliverySteps(r)
    \/ \E r \in Req : ListWalletsLock(r) \/ ServeDone(r)
    \/ \E r \in Req : \E body \in Bodies : SignDataBind(r, body)
    \/ \E r \in Req, i \in 1..parties : PartySteps(r, i) \/ Forward(r, i)

Fairness ==
    \A r \in Req :
        /\ WF_vars(HandlerSteps(r))
        /\ WF_vars(LoopSteps(r))
        /\ WF_vars(DeliverySteps(r))
        /\ \A i \in 1..parties : WF_vars(PartySteps(r, i)) /\ WF_vars(Forward(r, i))

LiveSpec == Init /\ [][NextNoError]_vars /\ Fairness

\* Every run of the program, under the same scheduling.
FairSpec == Spec /\ Fairness

\* ==================================================================== C1
\* A wallet with an address, a public key, the ids of all the parties and a
\* save of each of them.
WalletComplete(w) ==
    /\ w.Address # <<>>
    /\ w.PubKey # NoPoint
    /\ Len(w.PartyIDs) = parties
    /\ DOMAIN w.SaveData = {w.PartyIDs[i] : i \in 1..parties}
    /\ Cardinality(DOMAIN w.SaveData) = parties

\* The step in which request r writes a response.
Responds(r) == resp[r] = NoResponse /\ resp'[r] # NoResponse

\* The step adds wallet a to the store and changes nothing else in it.
AddsWallet(a) ==
    /\ a \notin DOMAIN wallets
    /\ DOMAIN wallets' = DOMAIN wallets \cup {a}
    /\ \A b \in DOMAIN wallets : wallets'[b] = wallets[b]

KeygenAllOrNothing ==
    /\ \A r \in Req : kind[r] = "keygen" /\ Responds(r) =>
          IF resp'[r].code = 200
          THEN /\ AddsWallet(resp'[r].body.address)
               /\ WalletComplete(wallets'[resp'[r].body.address])
               /\ Cardinality(DOMAIN saves[r]) = parties
          ELSE wallets' = wallets
    /\ wallets' # wallets =>
          \E r \in Req : kind[r] = "keygen" /\ Responds(r) /\ resp'[r].code = 200

\* C1: a key-generation session either adds exactly one complete wallet to the
\* store in the step that answers success, or answers with an error in a step
\* that leaves the store as it was; the store changes in no other step, and
\* every wallet in it holds a save of each of the N parties.
C1_KeygenAllOrNothing ==
    /\ [](\A a \in DOMAIN wallets : WalletComplete(wallets[a]))
    /\ [][KeygenAllOrNothing]_vars

\* A key generation has answered 200 and its wallet is in the store, after
\* another one answered with an error.
C1_Witness ==
    \E r \in Req :
        /\ kind[r] = "keygen"
        /\ resp[r].code = 200
        /\ resp[r].body.address \in DOMAIN wallets

\* A key generation has answered 500 and the store is empty.
C1_WitnessError ==
    \E r \in Req : kind[r] = "keygen" /\ resp[r].code = 500 /\ DOMAIN wallets = {}

\* ==================================================================== C2
SignatureAfterAll ==
    \A r \in Req : kind[r] = "sign" /\ Responds(r) /\ resp'[r].code = 200 =>
        /\ Len(signatures'[r]) = parties
        /\ Len(signatures[r]) = parties - 1
        /\ Len(partyIDs[r]) = parties

\* C2: a signing session answers with a signature only in the step in which
\* its dispatch loop takes the N-th completion event, and a signing request
\* that has ended otherwise holds an error response.
C2_SignatureAfterAllCompletions ==
    /\ [][SignatureAfterAll]_vars
    /\ [](\A r \in Req : kind[r] = "sign" /\ pc[r] = "done" =>
             \/ resp[r].code = 200 /\ DOMAIN resp[r].body = {"signature"}
             \/ resp[r].code \in {400, 404, 500} /\ DOMAIN resp[r].body = {"error"})

\* A signing request has ended with a signature.
C2_Witness ==
    \E r \in Req : kind[r] = "sign" /\ pc[r] = "done" /\ resp[r].code = 200

\* A signing session has ended with an error after some party completed.
C2_WitnessError ==
    \E r \in Req :
        /\ kind[r] = "sign"
        /\ loop[r] = "returned"
        /\ resp[r].code = 500
        /\ signatures[r] # <<>>

\* ==================================================================== C3
\* C3: when serializing a message taken from the routing queue has failed,
\* the session ends with the 500 response.
C3_SerializationErrorAborts ==
    \A r \in Req : (loop[r] = "errCh") ~> (resp[r].code = 500)

\* ==================================================================== C4
SessionSucceeded(r) ==
    /\ resp[r].code = 200
    /\ kind[r] = "keygen" => resp[r].body.address \in DOMAIN wallets
    /\ kind[r] = "sign" => DOMAIN resp[r].body = {"signature"}

\* C4: with every goroutine scheduled fairly and no error of the engine, of
\* serialization or of routing, every session that has started ends with the
\* 200 response: a key generation with its wallet in the store, a signing
\* with a signature.
C4_SessionsComplete ==
    \A r \in Req : Running(r) ~> (SessionSucceeded(r) /\ pc[r] = "done")

\* A signing session has succeeded on the wallet a key generation stored.
C4_Witness ==
    \E r \in Req :
        /\ kind[r] = "sign"
        /\ pc[r] = "done"
        /\ SessionSucceeded(r)
        /\ DOMAIN wallets # {}

\* ==================================================================== C5
\* Everything the model keeps for request r: a step of the request, of its
\* session's goroutines or of its dispatch loop changes some of it.
RequestState(r) ==
    <<pc[r], kind[r], resp[r], requestBody[r], existingWallets[r],
      walletAddress[r], data[r], wallet[r], msgToSign[r], partyIDs[r],
      partyGo[r], engine[r], outChs[r], messages[r], deliveries[r], endChs[r],
      resultCh[r], endCh[r], loop[r], saves[r], pubKey[r], signatures[r],
      faults[r]>>

SignStep(r) ==
    /\ kind[r] = "sign" \/ kind'[r] = "sign"
    /\ RequestState(r)' # RequestState(r)

PubKeyOfHex(str) ==
    LET raw == DecodeString(TrimPrefix(str, <<"0", "x">>)).bytes
    IN  [X |-> raw[1], Y |-> raw[2]]

\* C6: every wallet of the store is stored under its Address, which is the
\* address derived from its public key, and every entry of a list response
\* gives a wallet of the store under that address, with that public key; the
\* list step reports every address of the store.
C6_AddressMatchesKey ==
    /\ [](\A a \in DOMAIN wallets :
             /\ wallets[a].Address = a
             /\ a = PubkeyToAddress(wallets[a].PubKey))
    /\ [](\A r \in Req : kind[r] = "list" /\ resp[r].code = 200 =>
             \A e \in resp[r].body.wallets :
                 /\ e.Address \in DOMAIN wallets
                 /\ PubKeyOfHex(e.PubKey) = wallets[e.Address].PubKey
                 /\ e.Address = PubkeyToAddress(PubKeyOfHex(e.PubKey)))
    /\ [][\A r \in Req : kind[r] = "list" /\ Responds(r) =>
             {e.Address : e \in resp'[r].body.wallets} = DOMAIN wallets]_vars

\* A list response reports a wallet whose engines gave different public keys.
C6_Witness ==
    \E r \in Req :
        /\ kind[r] = "list"
        /\ resp[r].code = 200
        /\ \E e \in resp[r].body.wallets :
              \E id \in DOMAIN wallets[e.Address].SaveData :
                  wallets[e.Address].SaveData[id].ECDSAPub # wallets[e.Address].PubKey

\* ==================================================================== C7
Hex0x == <<"0", "x">>

\* The sign request of r has a JSON body that names a wallet of the store.
SignsExisting(r) ==
    /\ kind[r] = "sign"
    /\ requestBody[r].json
    /\ requestBody[r].Wallet \in DOMAIN wallets

\* C7 as stated: a sign request whose data is the empty byte string (the
\* empty string, or the bare prefix 0x) on a wallet of the store is not
\* answered with an input or not-found error.
C7_EmptyMessageAccepted ==
    \A r \in Req : SignsExisting(r) /\ requestBody[r].Data \in {<<>>, Hex0x} =>
        resp[r].code \notin {400, 404}

\* C7: a sign request whose data is "0x" on a wallet of the store gets no
\* input or not-found error, its decoded data is empty and its session signs
\* the integer zero; a request whose data is the empty string is answered
\* 400 "data and wallet are required" and has no session.
C7_Empty0xAcceptedAsZero ==
    \A r \in Req : SignsExisting(r) =>
        /\ requestBody[r].Data = Hex0x =>
              /\ resp[r].code \in {0, 200, 500}
              /\ pc[r] \in {"lock", "get", "setup"} => data[r] = <<>>
              /\ Running(r) => msgToSign[r] = 0
              /\ resp[r].code = 200 =>
                    resp[r].body.signature \in
                        {EncodeToString(SignatureData(0, v).R \o SignatureData(0, v).S) :
                            v \in {0, 1}}
        /\ requestBody[r].Data = <<>> =>
              /\ pc[r] = "done"
              /\ resp[r] = [code |-> 400,
                            body |-> [error |-> "data and wallet are required"]]
              /\ ~Running(r)

\* A sign request with data "0x" has ended with a signature.
C7_Witness ==
    \E r \in Req :
        /\ SignsExisting(r)
        /\ requestBody[r].Data = Hex0x
        /\ pc[r] = "done"
        /\ resp[r].code = 200

\* ==================================================================== C8
WellFormedData ==
    { Hex0x,
      <<"0", "x", "7", "4", "6", "5", "7", "3", "7", "4">>,
      <<"7", "4", "6", "5", "7", "3", "7", "4">> }
MalformedData ==
    { <<"0", "x", "7", "$", "4", "1", "6", "5", "7", "3", "7", "4">>,
      <<"0", "x", "7">> }

\* No party, no goroutine and no dispatch loop exists for request r.
NoSession(r) ==
    /\ ~Running(r)
    /\ partyIDs[r] = <<>>
    /\ partyGo[r] = <<>>
    /\ pc[r] \notin {"setup", "wait"}

\* C8: a sign request with well-formed data that names an address the store
\* does not have never has a session, and ends with the error response
\* "wallet not found", which is neither a success nor a 500.
C8_AbsentWalletNotFound ==
    \A r \in Req :
        /\ kind[r] = "sign"
        /\ requestBody[r].json
        /\ requestBody[r].Data \in WellFormedData
        /\ requestBody[r].Wallet # <<>>
        /\ requestBody[r].Wallet \notin DOMAIN wallets
        => /\ NoSession(r)
           /\ pc[r] \in {"lock", "get", "done"}
           /\ pc[r] = "done" =>
                 /\ resp[r].body = [error |-> "wallet not found"]
                 /\ resp[r].code \in 400..499

\* A sign request with well-formed data has been answered "wallet not found".
C8_Witness ==
    \E r \in Req :
        /\ kind[r] = "sign"
        /\ requestBody[r].Data \in WellFormedData
        /\ requestBody[r].Wallet \notin DOMAIN wallets
        /\ pc[r] = "done"
        /\ resp[r].body = [error |-> "wallet not found"]

\* ==================================================================== C9
\* C9: a sign request whose data is malformed hex is answered with the error
\* "invalid data" in the handler's first step, whatever wallet it names, and
\* never has a session.
C9_MalformedHexInvalidInput ==
    \A r \in Req :
        /\ kind[r] = "sign"
        /\ requestBody[r].json
        /\ requestBody[r].Data \in MalformedData
        /\ requestBody[r].Wallet # <<>>
        => /\ NoSession(r)
           /\ pc[r] = "done"
           /\ resp[r].body = [error |-> "invalid data"]
           /\ resp[r].code \in 400..499

\* A sign request with malformed data that names a wallet of the store has
\* been answered "invalid data".
C9_Witness ==
    \E r \in Req :
        /\ SignsExisting(r)
        /\ requestBody[r].Data \in MalformedData
        /\ resp[r].body = [error |-> "invalid data"]

\* =================================================================== C10
\* C10 as stated: a sign request with data "0x74657374" that names an
\* address the store does not have ends with status 400.
C10_AbsentWalletIs400 ==
    \A r \in Req :
        /\ kind[r] = "sign"
        /\ requestBody[r] =
              [json |-> TRUE,
               Data |-> <<"0", "x", "7", "4", "6", "5", "7", "3", "7", "4">>,
               Wallet |-> NonExistentWallet]
        /\ pc[r] = "done"
        => resp[r].code = 400

\* =================================================================== C11
\* C11 as stated: a sign request with the malformed data "0x7$41657374" that
\* names an address the store does not have ends with status 404.
C11_MalformedAbsentIs404 ==
    \A r \in Req :
        /\ kind[r] = "sign"
        /\ requestBody[r] =
              [json |-> TRUE,
               Data |-> <<"0", "x", "7", "$", "4", "1", "6", "5", "7", "3", "7", "4">>,
               Wallet |-> NonExistentWallet]
        /\ pc[r] = "done"
        => resp[r].code = 404

\* =================================================================== C12
\* A goroutine of session r is blocked on errCh <- err.
ErrorPending(r) ==
    \/ \E i \in PartyIx(r) : partyGo[r][i] = "errCh"
    \/ \E d \in deliveries[r] : d.at = "errCh"

\* The step in which the loop of r takes a message or a completion.
TakesMessageOrCompletion(r) ==
    /\ loop[r] = "select"
    /\ \/ Len(messages'[r]) < Len(messages[r])
       \/ Len(resultCh'[r]) < Len(resultCh[r])
       \/ Len(endCh'[r]) < Len(endCh[r])

\* C12 as stated: with an error pending, the loop takes no message and no
\* completion.
C12_ErrorsTakenFirst ==
    [][\A r \in Req : ErrorPending(r) => ~TakesMessageOrCompletion(r)]_vars

\* C12: the select of the dispatch loop has no priority: with an error and a
\* message both pending it can take either.  The step that takes an error
\* answers 500, leaves the store and the loop's locals alone and ends the
\* loop; and a session in which Start or UpdateFromBytes has failed has no
\* 200 response.
C12_SelectUnordered ==
    /\ [](\A r \in Req :
             loop[r] = "select" /\ messages[r] # <<>> /\ ErrorPending(r) =>
                 /\ ENABLED DispatchMessage(r)
                 /\ ENABLED (\/ \E i \in 1..parties : DispatchStartErr(r, i)
                             \/ \E d \in deliveries[r] : DispatchUpdateErr(r, d)))
    /\ [][\A r \in Req : Running(r) /\ Responds(r) /\ resp'[r].code = 500 =>
             /\ ErrorPending(r)
             /\ loop'[r] = "returned"
             /\ wallets' = wallets
             /\ <<saves[r], pubKey[r], signatures[r]>>' =
                    <<saves[r], pubKey[r], signatures[r]>>]_vars
    /\ [](\A r \in Req : Running(r) /\ faults[r] > 0 => resp[r].code \in {0, 500})

\* The loop is at its select with an error and a message pending, after it
\* took a completion.
C12_Witness ==
    \E r \in Req :
        /\ loop[r] = "select"
        /\ ErrorPending(r)
        /\ messages[r] # <<>>
        /\ saves[r] # <<>> \/ signatures[r] # <<>>

\* =================================================================== C13
\* C13 as stated: every wallet of the store was built from N party outputs
\* with the same public key, the one the wallet keeps.
C13_StoredKeysAgree ==
    \A a \in DOMAIN wallets : \A id \in DOMAIN wallets[a].SaveData :
        /\ wallets[a].SaveData[id].ECDSAPub.X = wallets[a].PubKey.X
        /\ wallets[a].SaveData[id].ECDSAPub.Y = wallets[a].PubKey.Y

\* =================================================================== C14
\* C14: the signature a signing session answers with is the hex of R then S
\* of the completion its loop took last, whatever the completions taken
\* before it hold.
C14_SignatureOfLastCompletion ==
    \A r \in Req : kind[r] = "sign" /\ loop[r] = "returned" /\ resp[r].code = 200 =>
        LET last == signatures[r][Len(signatures[r])]
        IN  /\ Len(signatures[r]) = parties
            /\ resp[r].body.signature = EncodeToString(last.R \o last.S)

\* A signing session has answered with the signature of its last completion
\* while an earlier completion holds a different R.
C14_Witness ==
    \E r \in Req :
        /\ kind[r] = "sign"
        /\ loop[r] = "returned"
        /\ resp[r].code = 200
        /\ signatures[r][1].R # signatures[r][parties].R
        /\ resp[r].body.signature =
              EncodeToString(signatures[r][parties].R \o signatures[r][parties].S)

\* =================================================================== C15
\* The ids of the parties a message is for.
NamedTargets(r, msg) ==
    IF msg.to = NoDest
    THEN {partyIDs[r][p] : p \in PartyIx(r)} \ {msg.from}
    ELSE {msg.to[k] : k \in 1..Len(msg.to)}

\* The step in which the loop of r takes a message and spawns its deliveries.
DeliveriesSpawned(r) ==
    /\ loop[r] = "select"
    /\ loop'[r] = "select"
    /\ Len(messages'[r]) < Len(messages[r])

\* C15: the step in which the loop takes a message spawns one delivery of
\* that message for every party but the sender when it is a broadcast, one
\* for every named destination when it is point-to-point, and no other.
C15_DeliveryTargets ==
    [][\A r \in Req : DeliveriesSpawned(r) =>
          LET msg == Head(messages[r])
              new == deliveries'[r] \ deliveries[r]
          IN  /\ deliveries[r] \subseteq deliveries'[r]
              /\ \A d \in new :
                    d.from = msg.from /\ d.round = msg.round /\ d.at = "update"
              /\ {partyIDs[r][d.p] : d \in new} = NamedTargets(r, msg)
              /\ Cardinality(new) = Cardinality(NamedTargets(r, msg))
              /\ msg.to = NoDest =>
                    /\ Cardinality(new) = parties - 1
                    /\ \A d \in new : partyIDs[r][d.p] # msg.from]_vars

\* The deliveries of a broadcast to the two parties that did not send it.
C15_Witness ==
    \E r \in Req : \E d1, d2 \in deliveries[r] :
          /\ kind[r] = "keygen"
          /\ d1.p # d2.p
          /\ d1.from = d2.from
          /\ partyIDs[r][d1.p] # d1.from
          /\ partyIDs[r][d2.p] # d1.from
          /\ d1.at = "update" /\ d2.at = "update"

\* The delivery of a point-to-point message of a signing session.
C15_WitnessP2P ==
    \E r \in Req : kind[r] = "sign" /\ deliveries[r] # {}

\* =================================================================== C16
\* C16 as stated: no two delivery goroutines of a session that have yet to
\* return from UpdateFromBytes are for the same party.
C16_DeliveriesSerialized ==
    \A r \in Req : \A d1, d2 \in deliveries[r] :
        d1 # d2 /\ d1.at = "update" /\ d2.at = "update" => d1.p # d2.p

\* =================================================================== C17
\* A party's engine emits the message of round k before the one of round
\* k + 1: the round of a message is its place in its sender's emissions.
\* The messages of a sender in sequence q are in the order of emission.
SenderOrdered(q) ==
    \A a, b \in 1..Len(q) : a < b /\ q[a].from = q[b].from => q[a].round < q[b].round

\* C17: the messages of a sender are in the shared stream in the order in
\* which the sender emitted them and ahead of those still in its outbound
\* queue, and the message the loop takes is the earliest of its sender that
\* the loop has not taken yet.
C17_PerSenderOrder ==
    /\ [](\A r \in Req :
             /\ SenderOrdered(messages[r])
             /\ \A i \in PartyIx(r) :
                   /\ SenderOrdered(outChs[r][i])
                   /\ \A a \in 1..Len(outChs[r][i]) : outChs[r][i][a].from = partyIDs[r][i]
                   /\ SenderOrdered(messages[r] \o outChs[r][i]))
    /\ [][\A r \in Req :
             loop[r] = "select" /\ Len(messages'[r]) < Len(messages[r]) =>
                 LET msg == Head(messages[r])
                 IN  /\ messages'[r] = Tail(messages[r])
                     /\ \A a \in 1..Len(messages'[r]) :
                           messages'[r][a].from = msg.from =>
                               msg.round < messages'[r][a].round
                     /\ \A i \in PartyIx(r) : \A a \in 1..Len(outChs[r][i]) :
                           outChs[r][i][a].from = msg.from =>
                               msg.round < outChs[r][i][a].round]_vars

\* The shared stream holds the two messages of one sender with a message of
\* another sender between them.
C17_Witness ==
    \E r \in Req : \E a, b, c \in 1..Len(messages[r]) :
        /\ a < b /\ b < c
        /\ messages[r][a].from = messages[r][c].from
        /\ messages[r][b].from # messages[r][a].from
        /\ messages[r][a].round < messages[r][c].round

\* =================================================================== C18
\* C18 as stated: a goroutine blocked on errCh <- err has the dispatch loop,
\* the only receiver of errCh, still running to take its error.
C18_ErrorsReceived ==
    \A r \in Req : ErrorPending(r) => loop[r] \in {"select", "lock", "put"}

\* =================================================================== C19
\* C19: while the dispatch loop of a session has returned, no step changes
\* the response of its request or the loop's collected completions, and no
\* step of the session changes the store; a response once written changes
\* only when the server is done with the request.
C19_NothingAfterReturn ==
    [][\A r \in Req :
          /\ loop[r] = "returned" =>
                /\ resp'[r] = resp[r]
                /\ RequestState(r)' # RequestState(r) => wallets' = wallets
                /\ loop'[r] = "returned" =>
                      <<saves[r], pubKey[r], signatures[r]>>' =
                          <<saves[r], pubKey[r], signatures[r]>>
          /\ resp[r] # NoResponse /\ resp'[r] # resp[r] =>
                pc[r] = "done" /\ resp'[r] = NoResponse]_vars

\* The loop of a keygen session has answered 500 and returned; a delivery is
\* still in flight and a completion waits on resultCh for nobody.
C19_Witness ==
    \E r \in Req :
        /\ loop[r] = "returned"
        /\ resp[r].code = 500
        /\ \E d \in deliveries[r] : d.at = "update"
        /\ resultCh[r] # <<>>

\* =================================================================== C20
\* Request r is at the count read, the get, the list or the put.
AtMapAccess(r) ==
    \/ kind[r] = "keygen" /\ pc[r] = "count" /\ ~Running(r)
    \/ kind[r] = "sign" /\ pc[r] = "get" /\ ~Running(r)
    \/ kind[r] = "list" /\ pc[r] = "list" /\ ~Running(r)
    \/ kind[r] = "keygen" /\ pc[r] = "wait" /\ loop[r] = "put"

C21_WalletsCompleteAndImmutable ==
    /\ [](\A a \in DOMAIN wallets : \A i \in 1..Len(wallets[a].PartyIDs) :
             wallets[a].PartyIDs[i] \in DOMAIN wallets[a].SaveData)
    /\ [][\A a \in DOMAIN wallets :
             a \in DOMAIN wallets' /\ wallets'[a] = wallets[a]]_vars
    /\ [](\A r \in Req : kind[r] = "sign" =>
             /\ wallet[r] # NoWallet =>
                   /\ wallet[r].Address \in DOMAIN wallets
                   /\ wallet[r] = wallets[wallet[r].Address]
             /\ resp[r].body # [error |-> "SaveData for party not found"])

\* A sign request has found the save of every party of a stored wallet and
\* its session runs.
C21_Witness ==
    \E r \in Req :
        /\ kind[r] = "sign"
        /\ Running(r)
        /\ wallet[r] # NoWallet
        /\ wallet[r].Address \in DOMAIN wallets
        /\ Len(partyIDs[r]) = parties

====
